---- MODULE Spec2Model ----
(***************************************************************************)
(* Model of the parler-tts server (backend/src/main.rs) and of the form    *)
(* its browser client sends (frontend/src/lib.rs).                         *)
(*                                                                         *)
(* The server is an axum application on a multi-threaded tokio runtime.    *)
(* POST /api/tts runs generate_tts, which reads the multipart form,        *)
(* validates it, and then calls the blocking create_wav_file on the        *)
(* runtime worker that polls the handler.  GET /api/health answers "OK".   *)
(*                                                                         *)
(* Strings are sequences of one-character strings, so that the numeric     *)
(* parsers (str::parse::<f64>, str::parse::<u64>) are modelled by what     *)
(* they accept and yield.                                                  *)
(***************************************************************************)
EXTENDS Integers, Sequences, FiniteSets, TLC

\* ------------------------------------------------------------------ bounds

\* Number of POST /api/tts requests the environment sends.
NumRequests == 2

\* Number of tokio runtime worker threads (one per core by default).
NumWorkers == 2

\* The wall clock, in whole seconds since the epoch, runs from 0 to MaxClock.
MaxClock == 1

\* The samples of a generation of max_steps steps are followed in MaxBlocks
\* blocks of the file.
MaxBlocks == 2

\* max_steps handed to Model::generate.
max_steps == 512

Requests == 1..NumRequests

\* ----------------------------------------------------------------- strings

NoneVal == [none |-> TRUE]

Digits == {"0", "1", "2", "3", "4", "5", "6", "7", "8", "9"}

DigitVal(c) ==
    CASE c = "0" -> 0 [] c = "1" -> 1 [] c = "2" -> 2 [] c = "3" -> 3
      [] c = "4" -> 4 [] c = "5" -> 5 [] c = "6" -> 6 [] c = "7" -> 7
      [] c = "8" -> 8 [] c = "9" -> 9

AllDigits(s) == \A i \in 1..Len(s) : s[i] \in Digits

\* ASCII lower-casing of the letters the float grammar knows.
LowerChar(c) ==
    CASE c = "I" -> "i" [] c = "N" -> "n" [] c = "F" -> "f" [] c = "A" -> "a"
      [] c = "T" -> "t" [] c = "Y" -> "y" [] OTHER -> c

Lower(s) == [i \in 1..Len(s) |-> LowerChar(s[i])]

\* Index of the first character of s that lies in cs, or 0.
FirstIn(s, cs) ==
    IF \E i \in 1..Len(s) : s[i] \in cs
    THEN CHOOSE i \in 1..Len(s) : s[i] \in cs /\ \A j \in 1..(i - 1) : s[j] \notin cs
    ELSE 0

RECURSIVE DigitsToInt(_)
DigitsToInt(s) ==
    IF s = <<>> THEN 0
    ELSE 10 * DigitsToInt(SubSeq(s, 1, Len(s) - 1)) + DigitVal(s[Len(s)])

StripZeros(s) ==
    IF \E i \in 1..Len(s) : s[i] # "0"
    THEN SubSeq(s, CHOOSE i \in 1..Len(s) :
                      s[i] # "0" /\ \A j \in 1..(i - 1) : s[j] = "0", Len(s))
    ELSE IF s = <<>> THEN <<>> ELSE <<"0">>

\* Lexicographic s <= t for digit strings of the same length.
RECURSIVE DigitsLeq(_, _)
DigitsLeq(s, t) ==
    IF s = <<>> THEN TRUE
    ELSE IF DigitVal(s[1]) < DigitVal(t[1]) THEN TRUE
    ELSE IF DigitVal(s[1]) > DigitVal(t[1]) THEN FALSE
    ELSE DigitsLeq(Tail(s), Tail(t))

\* u64::MAX = 18446744073709551615.
U64MaxDigits ==
    <<"1", "8", "4", "4", "6", "7", "4", "4", "0", "7", "3", "7", "0", "9",
      "5", "5", "1", "6", "1", "5">>

\* str::parse::<u64>: an optional '+', then one or more digits, no overflow.
\* The value is kept as its decimal digits without leading zeros.
ParseU64(s) ==
    LET body == IF s # <<>> /\ s[1] = "+" THEN Tail(s) ELSE s
        d    == StripZeros(body)
    IN  IF body = <<>> \/ ~AllDigits(body) THEN NoneVal
        ELSE IF Len(d) > Len(U64MaxDigits) THEN NoneVal
        ELSE IF Len(d) = Len(U64MaxDigits) /\ ~DigitsLeq(d, U64MaxDigits) THEN NoneVal
        ELSE [none |-> FALSE, val |-> d]

\* ------------------------------------------------------ natural numbers
\* Arbitrary-size naturals for the exact decimal-to-binary conversion of
\* str::parse::<f64>: sequences of limbs in base 2^LimbBits, least
\* significant first, without high zero limbs (zero is <<>>).  They are
\* functions, so that their arguments are values.
LimbBits == 24
Base == 2^LimbBits
Big == Seq(Nat)

Limb(a, i) == IF i \in 1..Len(a) THEN a[i] ELSE 0

BigNorm[a \in Big] ==
    IF \A i \in 1..Len(a) : a[i] = 0 THEN <<>>
    ELSE SubSeq(a, 1, CHOOSE i \in 1..Len(a) :
                         a[i] # 0 /\ \A j \in (i + 1)..Len(a) : a[j] = 0)

\* The carry into column i of the column sums s, each below 2 * Base: some
\* lower column overflows and every column between passes a carry on.
CarryIn(s, i) ==
    \E j \in 1..(i - 1) : s[j] >= Base /\ \A l \in (j + 1)..(i - 1) : s[l] = Base - 1

\* The number whose column sums are s; the last column takes no carry out.
BigRipple[s \in Big] ==
    BigNorm[[i \in 1..Len(s) |-> (s[i] + (IF CarryIn(s, i) THEN 1 ELSE 0)) % Base]]

BigAdd[a \in Big, b \in Big] ==
    BigRipple[[i \in 1..((IF Len(a) > Len(b) THEN Len(a) ELSE Len(b)) + 1) |->
                  Limb(a, i) + Limb(b, i)]]

\* a * k for a factor k < 2^(31 - LimbBits).
BigMulSmall[a \in Big, k \in Nat] ==
    BigRipple[[i \in 1..(Len(a) + 1) |->
                  ((Limb(a, i) * k) % Base) + ((Limb(a, i - 1) * k) \div Base)]]

\* a - b for a >= b: column i borrows when some lower column of a is
\* smaller than b's and every column between is equal.
BigSub[a \in Big, b \in Big] ==
    BigNorm[[i \in 1..Len(a) |->
                ((a[i] - Limb(b, i)) + Base
                 - (IF \E j \in 1..(i - 1) :
                          /\ a[j] < Limb(b, j)
                          /\ \A l \in (j + 1)..(i - 1) : a[l] = Limb(b, l)
                    THEN 1 ELSE 0)) % Base]]

BigLeq[a \in Big, b \in Big] ==
    IF Len(a) # Len(b) THEN Len(a) < Len(b)
    ELSE \/ a = b
         \/ \E i \in 1..Len(a) : a[i] < b[i] /\ \A l \in (i + 1)..Len(a) : a[l] = b[l]

\* a * 2^sh.
BigShl[a \in Big, sh \in Nat] ==
    BigNorm[[j \in 1..(Len(a) + (sh \div LimbBits) + 1) |->
                ((Limb(a, j - (sh \div LimbBits)) % (2^(LimbBits - (sh % LimbBits))))
                     * (2^(sh % LimbBits)))
                + (Limb(a, j - (sh \div LimbBits) - 1) \div (2^(LimbBits - (sh % LimbBits))))]]

\* The number of bits of a.
BigBitLen[a \in Big] ==
    IF a = <<>> THEN 0
    ELSE (Len(a) - 1) * LimbBits
         + (CHOOSE n \in 1..LimbBits : 2^(n - 1) <= a[Len(a)] /\ a[Len(a)] < 2^n)

\* a * 10^n.
BigMulPow10[a \in Big, n \in Nat] ==
    IF n = 0 THEN a
    ELSE IF n = 1 THEN BigMulSmall[a, 10]
    ELSE BigMulPow10[BigMulPow10[a, n \div 2], n - (n \div 2)]

BigOfDigits[ds \in Seq(Digits)] ==
    IF ds = <<>> THEN <<>>
    ELSE IF Len(ds) = 1 THEN (IF ds[1] = "0" THEN <<>> ELSE <<DigitVal(ds[1])>>)
    ELSE BigAdd[BigMulPow10[BigOfDigits[SubSeq(ds, 1, Len(ds) \div 2)], Len(ds) - (Len(ds) \div 2)],
                BigOfDigits[SubSeq(ds, (Len(ds) \div 2) + 1, Len(ds))]]

\* Shift-and-subtract division: the quotient bits i, i-1, .., 0 of rem / m,
\* appended to q.
DivLoop[rem \in Big, m \in Big, i \in Int, q \in Big] ==
    IF i < 0 THEN [q |-> q, rem |-> rem]
    ELSE IF BigLeq[BigShl[m, i], rem]
    THEN DivLoop[BigSub[rem, BigShl[m, i]], m, i - 1, BigAdd[BigShl[q, 1], <<1>>]]
    ELSE DivLoop[rem, m, i - 1, BigShl[q, 1]]

\* Quotient and remainder of n / m for m > 0.
BigDivMod[n \in Big, m \in Big] == DivLoop[n, m, BigBitLen[n] - BigBitLen[m], <<>>]

\* ------------------------------------------------------------------ f64
\* An f64 is NaN, an infinity, or (-1)^neg * mant * 2^exp2 with the 53-bit
\* significand mant: 2^52 <= mant < 2^53 for a normal number, mant < 2^52 and
\* exp2 = MinExp2 for a subnormal one, mant = 0 (and exp2 = 0 here) for zero.
MantBits == 53
MinExp2 == -1074
MaxExp2 == 971

F64Fin(neg, mant, exp2) == [kind |-> "fin", neg |-> neg, mant |-> mant, exp2 |-> exp2]
F64Inf(neg) == [kind |-> "inf", neg |-> neg]
F64NaN == [kind |-> "nan"]
F64Zero == F64Fin(FALSE, <<>>, 0)

\* Round to nearest, ties to even: quot + rem / den in units of 2^exp2.
\* A carry out of the significand moves to the next exponent; past MaxExp2
\* the result is an infinity.
RoundHalfEven[neg \in BOOLEAN, quot \in Big, rem \in Big, den \in Big, exp2 \in Int] ==
    LET twice == BigShl[rem, 1]
        up    == ~BigLeq[twice, den] \/ (twice = den /\ Limb(quot, 1) % 2 = 1)
    IN  IF ~up THEN (IF quot = <<>> THEN F64Fin(neg, <<>>, 0) ELSE F64Fin(neg, quot, exp2))
        ELSE IF BigBitLen[BigAdd[quot, <<1>>]] <= MantBits
        THEN F64Fin(neg, BigAdd[quot, <<1>>], exp2)
        ELSE IF exp2 + 1 > MaxExp2 THEN F64Inf(neg)
        ELSE F64Fin(neg, BigShl[<<1>>, MantBits - 1], exp2 + 1)

\* n / m in units of 2^exp2.
RoundAt[neg \in BOOLEAN, n \in Big, m \in Big, exp2 \in Int] ==
    IF exp2 > MaxExp2 THEN F64Inf(neg)
    ELSE IF exp2 < 0
    THEN RoundHalfEven[neg, BigDivMod[BigShl[n, 0 - exp2], m].q,
                       BigDivMod[BigShl[n, 0 - exp2], m].rem, m, exp2]
    ELSE RoundHalfEven[neg, BigDivMod[n, BigShl[m, exp2]].q,
                       BigDivMod[n, BigShl[m, exp2]].rem, BigShl[m, exp2], exp2]

\* floor(log2(n / m)), given e = BigBitLen[n] - BigBitLen[m].
Log2Floor[n \in Big, m \in Big, e \in Int] ==
    IF e >= 0 THEN (IF BigLeq[BigShl[m, e], n] THEN e ELSE e - 1)
    ELSE (IF BigLeq[m, BigShl[n, 0 - e]] THEN e ELSE e - 1)

\* The f64 nearest to (-1)^neg * n / m (n, m > 0): the significand keeps
\* MantBits bits, or fewer at the smallest exponent.
RoundF64[neg \in BOOLEAN, n \in Big, m \in Big] ==
    LET E == Log2Floor[n, m, BigBitLen[n] - BigBitLen[m]]
    IN  RoundAt[neg, n, m, IF E - (MantBits - 1) > MinExp2 THEN E - (MantBits - 1) ELSE MinExp2]

\* The decimal exponents from which every non-zero decimal d.ddd * 10^sci
\* overflows to an infinity, or underflows to zero.
MaxSci == 309
MinSci == -325

\* The exponent digits are accumulated while the exponent is below 0x10000.
ExpSaturate == 65536

\* if exponent < 0x10000 { exponent = 10 * exponent + digit }
ExpStep(exponent, digit) ==
    IF exponent < ExpSaturate THEN 10 * exponent + DigitVal(digit) ELSE exponent

RECURSIVE ExpFold(_, _)
ExpFold(exponent, ds) ==
    IF ds = <<>> THEN exponent
    ELSE ExpFold(ExpStep(exponent, Head(ds)), Tail(ds))

\* The accumulated exponent.  Leading zeros leave it at 0, and after six
\* significant digits it is at least 100000 and no later digit is added.
ExpOf(edig) ==
    ExpFold(0, SubSeq(StripZeros(edig), 1,
                      IF Len(StripZeros(edig)) < 6 THEN Len(StripZeros(edig)) ELSE 6))

\* s without its trailing zeros (s has a nonzero digit).
TrimZeros(s) ==
    SubSeq(s, 1, CHOOSE i \in 1..Len(s) :
                    s[i] # "0" /\ \A j \in (i + 1)..Len(s) : s[j] = "0")

\* The f64 of (-1)^neg * digits * 10^exp10, digits with a nonzero first and
\* last digit.
ScaledF64[neg \in BOOLEAN, digits \in Seq(Digits), exp10 \in Int] ==
    IF Len(digits) + exp10 - 1 >= MaxSci THEN F64Inf(neg)
    ELSE IF Len(digits) + exp10 - 1 <= MinSci THEN F64Fin(neg, <<>>, 0)
    ELSE IF exp10 >= 0
    THEN RoundF64[neg, BigMulPow10[BigOfDigits[digits], exp10], <<1>>]
    ELSE RoundF64[neg, BigOfDigits[digits], BigMulPow10[<<1>>, 0 - exp10]]

\* The f64 of the decimal (-1)^neg * digits * 10^exp10: trailing zeros of the
\* digits count as powers of ten.
DecimalF64[neg \in BOOLEAN, digits \in Seq(Digits), exp10 \in Int] ==
    IF StripZeros(digits) \in {<<>>, <<"0">>} THEN F64Fin(neg, <<>>, 0)
    ELSE ScaledF64[neg, TrimZeros(StripZeros(digits)),
                   exp10 + Len(StripZeros(digits)) - Len(TrimZeros(StripZeros(digits)))]

\* <f64 as FromStr>::from_str: [sign] ("inf" | "infinity" | "nan"),
\* case-insensitive, or [sign] digits ['.' digits] [('e'|'E') [sign] digits]
\* with a digit in the mantissa; the value is the nearest f64.
F64FromStr(s) ==
    LET signed == s # <<>> /\ s[1] \in {"+", "-"}
        neg    == s # <<>> /\ s[1] = "-"
        body   == IF signed THEN Tail(s) ELSE s
        low    == Lower(body)
        e      == FirstIn(body, {"e", "E"})
        mpart  == IF e = 0 THEN body ELSE SubSeq(body, 1, e - 1)
        epart  == IF e = 0 THEN <<>> ELSE SubSeq(body, e + 1, Len(body))
        dot    == FirstIn(mpart, {"."})
        ipart  == IF dot = 0 THEN mpart ELSE SubSeq(mpart, 1, dot - 1)
        fpart  == IF dot = 0 THEN <<>> ELSE SubSeq(mpart, dot + 1, Len(mpart))
        esign  == epart # <<>> /\ epart[1] \in {"+", "-"}
        eneg   == epart # <<>> /\ epart[1] = "-"
        edig   == IF esign THEN Tail(epart) ELSE epart
        mantOk == AllDigits(ipart) /\ AllDigits(fpart) /\ Len(ipart) + Len(fpart) > 0
        expOk  == e = 0 \/ (edig # <<>> /\ AllDigits(edig))
        ev     == IF e = 0 THEN 0
                  ELSE IF eneg THEN 0 - ExpOf(edig) ELSE ExpOf(edig)
    IN  IF low \in {<<"i", "n", "f">>, <<"i", "n", "f", "i", "n", "i", "t", "y">>}
        THEN [none |-> FALSE, val |-> F64Inf(neg)]
        ELSE IF low = <<"n", "a", "n">>
        THEN [none |-> FALSE, val |-> F64NaN]
        ELSE IF mantOk /\ expOk
        THEN [none |-> FALSE, val |-> DecimalF64[neg, ipart \o fpart, ev - Len(fpart)]]
        ELSE NoneVal

\* v >= 0.0 for a finite v (-0.0 compares equal to 0.0).
F64NonNegative(v) == v.kind = "fin" /\ (~v.neg \/ v.mant = <<>>)

\* 0.0 < v <= 1.0 for a finite v.
F64InUnitInterval(v) ==
    /\ v.kind = "fin"
    /\ ~v.neg
    /\ v.mant # <<>>
    /\ \/ v.exp2 <= 0 - MantBits
       \/ v.exp2 = 1 - MantBits /\ v.mant = BigShl[<<1>>, MantBits - 1]

\* ------------------------------------------------------------ the request

S_hi   == <<"h", "i">>
S_yo   == <<"y", "o">>
S_calm == <<"c", "a", "l", "m">>

\* What Field::text() cannot decode (bytes that are not UTF-8).
InvalidUtf8 == <<"\\xFF">>

\* One part of a multipart body.  broken: Multipart::next_field() returns Err
\* at this part (a malformed boundary or header).
Part(name, data) == [broken |-> FALSE, name |-> name, data |-> data]
BrokenPart == [broken |-> TRUE, name |-> "", data |-> <<>>]

\* The form the browser client posts: text, then description.
ClientForm(text, description) == <<Part("text", text), Part("description", description)>>

NumericNames == {"temperature", "seed", "top_p"}

\* The multipart bodies the environment sends; a request is given one of
\* them by its index.  A body may give a field more than once.
Forms ==
    << ClientForm(S_hi, S_calm),
       ClientForm(S_hi, <<>>),
       ClientForm(<<>>, S_calm),
       <<Part("text", S_hi)>>,
       <<Part("description", S_calm)>>,
       ClientForm(<<>>, S_calm) \o <<Part("seed", <<"-", "1">>)>>,
       <<Part("text", S_hi), BrokenPart>>,
       <<Part("text", S_hi), Part("description", InvalidUtf8)>>,
       ClientForm(S_hi, S_calm) \o
           <<Part("temperature", <<"0", ".", "5">>), Part("temperature", <<"a", "b", "c">>),
             Part("seed", <<"-", "1">>), Part("top_p", <<"x">>)>>,
       ClientForm(S_yo, S_calm) \o
           <<Part("seed", <<"4", "2">>), Part("temperature", <<"-", "1">>),
             Part("top_p", <<"0", ".", "9">>), Part("voice", S_yo)>>,
       <<Part("text", S_hi), Part("text", <<>>), Part("description", S_calm)>> >>

\* The texts the bodies give for temperature and top_p, converted once.
F64Texts ==
    UNION {{Forms[f][i].data :
               i \in {j \in DOMAIN Forms[f] : Forms[f][j].name \in {"temperature", "top_p"}}} :
           f \in DOMAIN Forms}
F64OfText == [s \in F64Texts |-> F64FromStr(s)]

\* data.parse::<f64>().ok()
ParseF64(s) == IF s \in F64Texts THEN F64OfText[s] ELSE F64FromStr(s)

\* let mut text = String::new(); ... let mut top_p = None;
EmptyFields ==
    [none |-> FALSE, text |-> <<>>, description |-> <<>>,
     temperature |-> NoneVal, seed |-> NoneVal, top_p |-> NoneVal]

\* A policy the handler does not follow: a numeric value that does not parse
\* is kept as a value (NaN, seed 0) instead of None.
StoreFieldKept(acc, name, data) ==
    CASE name = "text"        -> [acc EXCEPT !.text = data]
      [] name = "description" -> [acc EXCEPT !.description = data]
      [] name = "temperature" ->
            [acc EXCEPT !.temperature =
                IF ParseF64(data).none THEN [none |-> FALSE, val |-> F64NaN] ELSE ParseF64(data)]
      [] name = "seed"        ->
            [acc EXCEPT !.seed =
                IF ParseU64(data).none THEN [none |-> FALSE, val |-> <<"0">>] ELSE ParseU64(data)]
      [] name = "top_p"       ->
            [acc EXCEPT !.top_p =
                IF ParseF64(data).none THEN [none |-> FALSE, val |-> F64NaN] ELSE ParseF64(data)]
      [] OTHER                -> acc

\* One arm of the match on the field name.
StoreField(acc, name, data) ==
    CASE name = "text"        -> [acc EXCEPT !.text = data]
      [] name = "description" -> [acc EXCEPT !.description = data]
      [] name = "temperature" -> [acc EXCEPT !.temperature = ParseF64(data)]
      [] name = "seed"        -> [acc EXCEPT !.seed = ParseU64(data)]
      [] name = "top_p"       -> [acc EXCEPT !.top_p = ParseF64(data)]
      [] OTHER                -> acc

\* The while-let loop over a body whose parts can all be read and decoded.
RECURSIVE ReadFields(_, _)
ReadFields(parts, acc) ==
    IF parts = <<>> THEN acc
    ELSE ReadFields(Tail(parts), StoreField(acc, Head(parts).name, Head(parts).data))

\* A validation that looks at the description alone.
InvalidDescriptionOnly(fields) == fields.description = <<>>

\* if text.is_empty() || description.is_empty() { return Err(BAD_REQUEST) }
Invalid(fields) == fields.text = <<>> \/ fields.description = <<>>

NoArgs == [none |-> TRUE]

\* CreateWavArgs { description, prompt: text, out_file, temperature, seed, top_p };
\* out_file is ./public/audio/generated_audio_<timestamp>.wav.
CreateWavArgs(fields, timestamp) ==
    [none |-> FALSE, description |-> fields.description, prompt |-> fields.text,
     out_file |-> timestamp, temperature |-> fields.temperature,
     seed |-> fields.seed, top_p |-> fields.top_p]

UnwrapOr(opt, default) == IF opt.none THEN default ELSE opt.val

\* temperature.unwrap_or(0.0), seed.unwrap_or(0), top_p as given: the
\* arguments of LogitsProcessor::new(seed, Some(temperature), top_p).
LogitsProcessor(a) ==
    [none |-> FALSE, seed |-> UnwrapOr(a.seed, <<"0">>),
     temperature |-> UnwrapOr(a.temperature, F64Zero), top_p |-> a.top_p]

\* What the generated audio depends on: the two token sequences (functions
\* of the two texts) and the sampling configuration.
AudioOf(a) == [prompt |-> a.prompt, description |-> a.description, lp |-> LogitsProcessor(a)]

\* Model::generate runs its loop for at most max_steps steps and leaves it
\* earlier when every codebook has produced its end token at step stop.
GeneratedSteps(stop, limit) == IF stop < limit THEN stop ELSE limit

\* A file is followed in blocks, byte ranges that are the same for every
\* file: the first holds the WAV header, and each further one the samples
\* decoded from BlockSteps steps of the code matrix.  Writes and reads are
\* followed block by block.
BlockSteps == max_steps \div MaxBlocks

\* The steps at which the model may produce its end tokens; a value above
\* max_steps stands for "never".
StopSteps == {BlockSteps, max_steps + 1}

SampleBlocks(columns) == (columns + BlockSteps - 1) \div BlockSteps

\* The WAV of an audio, block by block: a byte sequence that is a function
\* of the audio, the header telling its length.
WavOf(audio, columns) ==
    [i \in 1..(1 + SampleBlocks(columns)) |->
        [hole |-> FALSE, at |-> i - 1, of |-> audio, blocks |-> SampleBlocks(columns)]]

\* The bytes a write past the end of a file leaves in the gap.
Hole == [hole |-> TRUE]

\* A write of chunk at offset off (0-based) through a file handle: what lies
\* before it and after its end stays as it is.
WriteAt(data, off, chunk) ==
    [i \in 1..(IF Len(data) > off + Len(chunk) THEN Len(data) ELSE off + Len(chunk)) |->
        IF i > off /\ i <= off + Len(chunk) THEN chunk[i - off]
        ELSE IF i <= Len(data) THEN data[i]
        ELSE Hole]

NoFile == [exists |-> FALSE, data |-> <<>>]

\* The bodies that pass the handler's reading and validation, and the
\* inputs of Model::generate they lead to.
Accepted ==
    {f \in DOMAIN Forms :
        /\ \A i \in 1..Len(Forms[f]) : ~Forms[f][i].broken /\ Forms[f][i].data # InvalidUtf8
        /\ ~Invalid(ReadFields(Forms[f], EmptyFields))}
Audios == {AudioOf(CreateWavArgs(ReadFields(Forms[f], EmptyFields), 0)) : f \in Accepted}

\* ---------------------------------------------------------------- state

VARIABLES
    server,     \* "starting", "serving" (axum::serve runs) or "exited"
    clock,      \* SystemTime::now() in seconds
    dirExists,  \* whether ./public/audio exists
    files,      \* ./public/audio/generated_audio_<t>.wav, by t
    loads,      \* how many times Model::new has built the model
    stops,      \* the step at which the weights end the generation, by input
    health,     \* the GET /api/health request: "none" or "pending"
    pc,         \* where each /api/tts request is in generate_tts
    form,       \* the multipart body of each request, as its index in Forms
    cursor,     \* how many parts of the body next_field() has handed out
    fields,     \* the locals text, description, temperature, seed, top_p
    args,       \* the CreateWavArgs of each request
    offset,     \* the position of each request's handle on its output file
    buf,        \* the bytes std::fs::read has read so far
    lp,         \* the sampling configuration handed to the model
    columns,    \* the number of steps in the code matrix
    status,     \* the response status (0: no response)
    body,       \* the response body
    failure     \* "none", "err" (a stage returned Err) or "panic"

vars ==
    <<server, clock, dirExists, files, loads, stops, health, pc, form, cursor,
      fields, args, offset, buf, lp, columns, status, body, failure>>

reqVars ==
    <<pc, form, cursor, fields, args, offset, buf, lp, columns, status, body, failure>>

\* The requests suspended at an await of the read loop.
Reading == {"next_field", "text"}

\* The requests whose handler is being polled: from the last next_field()
\* to the response, generate_tts has no await, so it keeps the runtime
\* worker it runs on.
Running ==
    {r \in Requests : pc[r] \in {"load", "generate", "create", "write", "open", "read"}}

WorkerFree == Cardinality(Running) < NumWorkers

Init ==
    /\ server = "starting"
    /\ clock = 0
    /\ dirExists = FALSE
    /\ files = [t \in 0..MaxClock |-> NoFile]
    /\ loads = 0
    /\ stops \in [Audios -> StopSteps]
    /\ health = "none"
    /\ pc = [r \in Requests |-> "new"]
    /\ form = [r \in Requests |-> 0]
    /\ cursor = [r \in Requests |-> 0]
    /\ fields = [r \in Requests |-> NoArgs]
    /\ args = [r \in Requests |-> NoArgs]
    /\ offset = [r \in Requests |-> 0]
    /\ buf = [r \in Requests |-> <<>>]
    /\ lp = [r \in Requests |-> NoArgs]
    /\ columns = [r \in Requests |-> 0]
    /\ status = [r \in Requests |-> 0]
    /\ body = [r \in Requests |-> <<>>]
    /\ failure = [r \in Requests |-> "none"]

\* main: build the router, bind the listener, serve.  A failed bind returns
\* the error from main.
Main ==
    /\ server = "starting"
    /\ \/ server' = "serving"
       \/ server' = "exited"
    /\ UNCHANGED <<clock, dirExists, files, loads, stops, health>>
    /\ UNCHANGED reqVars

\* The clock is read only where a request leaves the read loop, so it is not
\* advanced once every request has left it.
Tick ==
    /\ clock < MaxClock
    /\ \E r \in Requests : pc[r] \in {"new"} \cup Reading
    /\ clock' = clock + 1
    /\ UNCHANGED <<server, dirExists, files, loads, stops, health>>
    /\ UNCHANGED reqVars

\* The handler's locals are dropped when it returns or unwinds.
DropLocals(r) ==
    /\ cursor' = [cursor EXCEPT ![r] = 0]
    /\ fields' = [fields EXCEPT ![r] = NoArgs]
    /\ args' = [args EXCEPT ![r] = NoArgs]
    /\ lp' = [lp EXCEPT ![r] = NoArgs]
    /\ offset' = [offset EXCEPT ![r] = 0]
    /\ buf' = [buf EXCEPT ![r] = <<>>]
    /\ columns' = [columns EXCEPT ![r] = 0]

\* The handler's return: Err(status) or Ok(response with the file's bytes).
Respond(r, code, bytes, fail) ==
    /\ pc' = [pc EXCEPT ![r] = "done"]
    /\ status' = [status EXCEPT ![r] = code]
    /\ body' = [body EXCEPT ![r] = bytes]
    /\ failure' = [failure EXCEPT ![r] = fail]
    /\ DropLocals(r)

\* generate_tts is called with the request's body: the locals are
\* initialised and the handler waits in multipart.next_field().await.
GenerateTts(r) ==
    /\ server = "serving"
    /\ pc[r] = "new"
    /\ \A q \in Requests : q < r => pc[q] # "new"
    /\ WorkerFree
    /\ \E f \in DOMAIN Forms : form' = [form EXCEPT ![r] = f]
    /\ fields' = [fields EXCEPT ![r] = EmptyFields]
    /\ pc' = [pc EXCEPT ![r] = "next_field"]
    /\ UNCHANGED <<server, clock, dirExists, files, loads, stops, health>>
    /\ UNCHANGED <<cursor, args, offset, buf, lp, columns, status, body, failure>>

\* multipart.next_field().await returns.  Err: BAD_REQUEST.  Some(field): the
\* handler waits in field.text().await.  None: the loop ends and the handler
\* runs on without an await: it validates, takes the timestamp, creates the
\* output directory, builds the arguments and calls create_wav_file.
NextField(r) ==
    /\ pc[r] = "next_field"
    /\ WorkerFree
    /\ IF cursor[r] < Len(Forms[form[r]])
       THEN /\ IF Forms[form[r]][cursor[r] + 1].broken
               THEN Respond(r, 400, <<>>, "none")
               ELSE /\ pc' = [pc EXCEPT ![r] = "text"]
                    /\ cursor' = [cursor EXCEPT ![r] = cursor[r] + 1]
                    /\ UNCHANGED <<fields, args, offset, buf, lp, columns, status, body, failure>>
            /\ UNCHANGED dirExists
       ELSE \/ /\ Invalid(fields[r])
               /\ Respond(r, 400, <<>>, "none")
               /\ UNCHANGED dirExists
            \/ /\ ~Invalid(fields[r])
               /\ dirExists' = TRUE
               /\ args' = [args EXCEPT ![r] = CreateWavArgs(fields[r], clock)]
               /\ fields' = [fields EXCEPT ![r] = NoArgs]
               /\ cursor' = [cursor EXCEPT ![r] = 0]
               /\ pc' = [pc EXCEPT ![r] = "load"]
               /\ UNCHANGED <<offset, buf, lp, columns, status, body, failure>>
            \/ /\ ~Invalid(fields[r])
               /\ ~dirExists
               /\ Respond(r, 500, <<>>, "err")
               /\ UNCHANGED dirExists
    /\ UNCHANGED <<server, clock, files, loads, stops, health, form>>

\* field.text().await returns.  Err: BAD_REQUEST.  Ok(data): the match stores
\* it and the loop waits in next_field().await again.
FieldText(r) ==
    /\ pc[r] = "text"
    /\ WorkerFree
    /\ LET part == Forms[form[r]][cursor[r]]
       IN  IF part.data = InvalidUtf8
           THEN Respond(r, 400, <<>>, "none")
           ELSE /\ fields' = [fields EXCEPT ![r] = StoreField(fields[r], part.name, part.data)]
                /\ pc' = [pc EXCEPT ![r] = "next_field"]
                /\ UNCHANGED <<cursor, args, offset, buf, lp, columns, status, body, failure>>
    /\ UNCHANGED <<server, clock, dirExists, files, loads, stops, health, form>>

\* create_wav_file, from Api::new to Model::new: resolve the files on the
\* hub, load the tokenizer, the device, the weights, the configuration, and
\* build the model.  Tokenizer::from_file(..).unwrap() panics on a tokenizer
\* file it cannot load; every other failure is returned with `?`.
LoadModel(r) ==
    /\ pc[r] = "load"
    /\ \/ /\ loads' = loads + 1
          /\ pc' = [pc EXCEPT ![r] = "generate"]
          /\ UNCHANGED <<cursor, fields, args, offset, buf, lp, columns, status, body, failure>>
       \/ /\ Respond(r, 500, <<>>, "err")
          /\ UNCHANGED loads
       \/ /\ pc' = [pc EXCEPT ![r] = "aborted"]
          /\ failure' = [failure EXCEPT ![r] = "panic"]
          /\ DropLocals(r)
          /\ UNCHANGED <<loads, status, body>>
    /\ UNCHANGED <<server, clock, dirExists, files, stops, health, form>>

\* create_wav_file, from the two encodes to to_vec1: tokenize, build the
\* LogitsProcessor, generate, save the codes, decode, normalize.
Generate(r) ==
    /\ pc[r] = "generate"
    /\ \/ /\ lp' = [lp EXCEPT ![r] = LogitsProcessor(args[r])]
          /\ columns' = [columns EXCEPT ![r] =
                            GeneratedSteps(stops[AudioOf(args[r])], max_steps)]
          /\ pc' = [pc EXCEPT ![r] = "create"]
          /\ UNCHANGED <<cursor, fields, args, offset, buf, status, body, failure>>
       \/ Respond(r, 500, <<>>, "err")
    /\ UNCHANGED <<server, clock, dirExists, files, loads, stops, health, form>>

\* File::create(&out_file): creates the file or truncates it.
CreateOutFile(r) ==
    /\ pc[r] = "create"
    /\ \/ /\ files' = [files EXCEPT ![args[r].out_file] = [exists |-> TRUE, data |-> <<>>]]
          /\ pc' = [pc EXCEPT ![r] = "write"]
          /\ offset' = [offset EXCEPT ![r] = 0]
          /\ UNCHANGED <<cursor, fields, args, buf, lp, columns, status, body, failure>>
       \/ /\ Respond(r, 500, <<>>, "err")
          /\ UNCHANGED files
    /\ UNCHANGED <<server, clock, dirExists, loads, stops, health, form>>

\* write_pcm_as_wav(&mut output, ..): the WAV goes to the file through the
\* unbuffered handle in a series of write calls, each writing at the
\* handle's position and advancing it; another request's File::create or
\* write may come between two of them.  After the last one create_wav_file
\* returns Ok.
WriteWav(r) ==
    /\ pc[r] = "write"
    /\ \/ LET f     == files[args[r].out_file]
              wav   == WavOf(AudioOf(args[r]), columns[r])
              chunk == <<wav[offset[r] + 1]>>
          IN  /\ files' = [files EXCEPT ![args[r].out_file] =
                              [exists |-> TRUE, data |-> WriteAt(f.data, offset[r], chunk)]]
              /\ offset' = [offset EXCEPT ![r] = offset[r] + Len(chunk)]
              /\ pc' = [pc EXCEPT ![r] =
                           IF offset[r] + Len(chunk) = Len(wav) THEN "open" ELSE "write"]
              /\ UNCHANGED <<cursor, fields, args, buf, lp, columns, status, body, failure>>
       \/ /\ Respond(r, 500, <<>>, "err")
          /\ UNCHANGED files
    /\ UNCHANGED <<server, clock, dirExists, loads, stops, health, form>>

\* std::fs::read(&filepath), its beginning: the file is opened and the
\* buffer is empty.  Err (no such file, or the open fails): 500.
ReadOpen(r) ==
    /\ pc[r] = "open"
    /\ \/ /\ files[args[r].out_file].exists
          /\ buf' = [buf EXCEPT ![r] = <<>>]
          /\ pc' = [pc EXCEPT ![r] = "read"]
          /\ UNCHANGED <<cursor, fields, args, offset, lp, columns, status, body, failure>>
       \/ Respond(r, 500, <<>>, "err")
    /\ UNCHANGED <<server, clock, dirExists, files, loads, stops, health, form>>

\* std::fs::read(&filepath), one read call: it appends what the file holds
\* at the position reached so far; the file is not locked, so another
\* request's File::create or write may come between two calls.  A call that
\* finds nothing at the position ends the read, and the handler answers 200
\* with the bytes read.  Err: 500.
ReadBack(r) ==
    /\ pc[r] = "read"
    /\ LET data == files[args[r].out_file].data
       IN  \/ /\ Len(buf[r]) < Len(data)
              /\ buf' = [buf EXCEPT ![r] = Append(buf[r], data[Len(buf[r]) + 1])]
              /\ UNCHANGED <<pc, cursor, fields, args, offset, lp, columns, status, body, failure>>
           \/ /\ Len(buf[r]) >= Len(data)
              /\ Respond(r, 200, buf[r], "none")
           \/ Respond(r, 500, <<>>, "err")
    /\ UNCHANGED <<server, clock, dirExists, files, loads, stops, health, form>>

\* A GET /api/health request reaches the server.
HealthArrive ==
    /\ server = "serving"
    /\ health = "none"
    /\ health' = "pending"
    /\ UNCHANGED <<server, clock, dirExists, files, loads, stops>>
    /\ UNCHANGED reqVars

\* health_check: a runtime worker polls the handler, which answers "OK".
HealthCheck ==
    /\ health = "pending"
    /\ WorkerFree
    /\ health' = "none"
    /\ UNCHANGED <<server, clock, dirExists, files, loads, stops>>
    /\ UNCHANGED reqVars

Next ==
    \/ Main
    \/ Tick
    \/ HealthArrive
    \/ HealthCheck
    \/ \E r \in Requests : GenerateTts(r)
    \/ \E r \in Requests : NextField(r)
    \/ \E r \in Requests : FieldText(r)
    \/ \E r \in Requests : LoadModel(r)
    \/ \E r \in Requests : Generate(r)
    \/ \E r \in Requests : CreateOutFile(r)
    \/ \E r \in Requests : WriteWav(r)
    \/ \E r \in Requests : ReadOpen(r)
    \/ \E r \in Requests : ReadBack(r)

Spec == Init /\ [][Next]_vars

\* ------------------------------------------------- reading the requests

Handled(r) == pc[r] # "new"

\* The body of a request that has been handled.
FormOf(r) == Forms[form[r]]

\* The handler has returned or unwound.
Finished(r) == pc[r] \in {"done", "aborted"}

\* Every part of the body can be read and decoded.
Readable(f) == \A i \in 1..Len(f) : ~f[i].broken /\ f[i].data # InvalidUtf8

PartsNamed(f, n) == {i \in 1..Len(f) : ~f[i].broken /\ f[i].name = n}

\* The value of a field as the request gives it: the text of the last part
\* of that name, or nothing.
LastValue(f, n) ==
    IF PartsNamed(f, n) = {} THEN NoneVal
    ELSE [none |-> FALSE,
          val |-> f[CHOOSE i \in PartsNamed(f, n) : \A j \in PartsNamed(f, n) : j <= i].data]

\* The field is missing, or the value given for it is empty.
MissingOrEmpty(f, n) == LastValue(f, n).none \/ LastValue(f, n).val = <<>>

DoesNotParse(n, data) ==
    IF n = "seed" THEN ParseU64(data).none ELSE ParseF64(data).none

\* The field is given and its value does not parse as a number.
Malformed(f, n) == ~LastValue(f, n).none /\ DoesNotParse(n, LastValue(f, n).val)

Keep(f, n, i) == f[i].broken \/ f[i].name # n

\* The same body with the field absent.
RECURSIVE Without(_, _)
Without(f, n) ==
    IF f = <<>> THEN <<>>
    ELSE IF Keep(f, n, 1) THEN <<Head(f)>> \o Without(Tail(f), n)
    ELSE Without(Tail(f), n)

\* The numeric fields of a body that are given and do not parse, and what
\* the handler reads from the body without such a field.
MalformedFields(f) == {n \in NumericNames : Readable(f) /\ Malformed(f, n)}
FieldsWithout(f, n) == ReadFields(Without(f, n), EmptyFields)

\* The WAV file that the request's own generation produces.
OwnAudio(r) == AudioOf(CreateWavArgs(ReadFields(FormOf(r), EmptyFields), 0))
OwnWav(r) == WavOf(OwnAudio(r), GeneratedSteps(stops[OwnAudio(r)], max_steps))

\* ---------------------------------------------------------------- claims

\* C1: a request with a non-empty text and an empty or absent description
\* is never answered 400; when no stage fails it is answered 200.
C1_EmptyDescriptionAccepted ==
    \A r \in Requests :
        (/\ Finished(r)
         /\ Readable(FormOf(r))
         /\ ~MissingOrEmpty(FormOf(r), "text")
         /\ MissingOrEmpty(FormOf(r), "description"))
        => /\ status[r] # 400
           /\ failure[r] = "none" => status[r] = 200

\* C2: a request whose text is missing or empty is answered 400, and no step
\* of its handler calls create_wav_file, creates the audio directory, loads
\* the model or writes a file; the request does nothing after its response.
C2_EmptyTextRejected ==
    [][\A r \in Requests :
          (pc'[r] # pc[r] /\ MissingOrEmpty(Forms[form'[r]], "text"))
          => /\ pc'[r] \in Reading \cup {"done"}
             /\ pc'[r] = "done" => status'[r] = 400
             /\ args'[r] = NoArgs
             /\ UNCHANGED <<dirExists, files, loads>>]_vars

C2_Witness ==
    \E r \in Requests :
        /\ pc[r] = "done"
        /\ Readable(FormOf(r))
        /\ MissingOrEmpty(FormOf(r), "text")
        /\ status[r] = 400
        /\ ~dirExists
        /\ loads = 0

\* C3: a request in which a stage after validation failed ends with a 500
\* response and an empty body.
C3_FailureGives500 ==
    \A r \in Requests :
        (Finished(r) /\ failure[r] # "none") => (status[r] = 500 /\ body[r] = <<>>)

\* C4: the body of every 200 response is the complete WAV of the request's
\* own generation.
C4_OwnWavReturned ==
    \A r \in Requests : (pc[r] = "done" /\ status[r] = 200) => body[r] = OwnWav(r)

\* C5: two requests answered 200 that give the same values for text,
\* description, seed, temperature and top_p have the same body.
C5_Deterministic ==
    \A r1, r2 \in Requests :
        (/\ pc[r1] = "done" /\ status[r1] = 200
         /\ pc[r2] = "done" /\ status[r2] = 200
         /\ \A n \in {"text", "description"} \cup NumericNames :
                LastValue(FormOf(r1), n) = LastValue(FormOf(r2), n))
        => body[r1] = body[r2]

\* C6: no request is handled before the model has been loaded, and the
\* model is loaded at most once.
C6_LoadedOnceBeforeServing ==
    /\ \A r \in Requests : Handled(r) => loads >= 1
    /\ loads <= 1

\* C7: a health request that has arrived can be answered at once: it never
\* finds every worker occupied by a generation.
C7_HealthNotBlocked == health = "pending" => WorkerFree

\* C8: a request with a numeric field whose value does not parse is rejected
\* only if the same request without the field is rejected, and is otherwise
\* processed with the arguments of the same request without the field: the
\* step that ends the read loop builds the same CreateWavArgs, and the step
\* that starts generation hands the model the same sampling configuration.
C8_MalformedNumericIsAbsent ==
    [][\A r \in Requests :
          /\ (pc[r] \in Reading /\ pc'[r] \notin Reading) =>
                \A n \in MalformedFields(FormOf(r)) :
                    LET absent == FieldsWithout(FormOf(r), n) IN
                    /\ (pc'[r] = "done" /\ status'[r] = 400) <=> Invalid(absent)
                    /\ ~args'[r].none => args'[r] = CreateWavArgs(absent, clock)
          /\ (lp[r].none /\ ~lp'[r].none) =>
                \A n \in MalformedFields(FormOf(r)) :
                    lp'[r] = LogitsProcessor(CreateWavArgs(FieldsWithout(FormOf(r), n), 0))
      ]_vars

C8_Witness ==
    \E r \in Requests :
        /\ Handled(r)
        /\ MalformedFields(FormOf(r)) = NumericNames
        /\ pc[r] = "create"
        /\ lp[r] = [none |-> FALSE, seed |-> <<"0">>, temperature |-> F64Zero,
                    top_p |-> NoneVal]

\* C9: the code matrix has at most max_steps columns and every request
\* that passed validation ends with a response.
C9_BoundedAndAnswered ==
    \A r \in Requests :
        /\ columns[r] <= max_steps
        /\ Finished(r) => status[r] # 0

\* C10: the sampling configuration handed to the model has a finite
\* temperature >= 0 and a top_p that is absent or in (0, 1].
C10_SamplingInRange ==
    \A r \in Requests :
        ~lp[r].none =>
            /\ F64NonNegative(lp[r].temperature)
            /\ lp[r].top_p.none \/ F64InUnitInterval(lp[r].top_p.val)

====
